---- MODULE Spec2Model ----
(***************************************************************************)
(* Model of speedo's Printer (speedo/include/speedo/printer.h).            *)
(*                                                                         *)
(* Text is modelled as a sequence of one-character strings, std::cerr as   *)
(* the sequence of lines written so far together with the formatting       *)
(* state an ostream keeps between insertions (fill character, adjustment   *)
(* flag, pending field width).                                             *)
(***************************************************************************)
EXTENDS Integers, Sequences, FiniteSets

VARIABLES
    measurements_,  \* Printer::measurements_
    cerr,           \* std::cerr: lines written and the sticky format state
    calls,          \* history: "add" / "print", the public calls made so far
    added,          \* history: the arguments of the add() calls, in call order
    marks,          \* history: number of lines on cerr when each print() began
    consulted,      \* history: the indices i read as measurements_[i] by the last print()
    pc,             \* position of the caller of a private helper ("idle", "call", "done")
    arg,            \* argument of the helper under call
    ret             \* value the helper returned

vars == <<measurements_, cerr, calls, added, marks, consulted, pc, arg, ret>>

----------------------------------------------------------------------------
(* Bounds of the exploration *)

MaxCalls == 4       \* number of add()/print() calls in one behaviour
MaxN == 12000       \* insert_separators is applied to every n in 0..MaxN
MaxPathLen == 4     \* crop_path is applied to every path of at most this length

----------------------------------------------------------------------------
(* Program constants *)

line_width == 80
file_col_width == 30
line_col_width == 6
count_col_width == 10
avg_duration_col_width == 15
ovr_duration_col_width == 15

\* std::string::npos is the largest size_t; it is represented by its residue
\* -1 modulo 2^64, so that npos + 1 = 0 as in unsigned arithmetic.
npos == -1

title == <<" ","P","R","O","F","I","L","I","N","G"," ","W","I","T","H"," ",
           "S","P","E","E","D","O"," ">>

----------------------------------------------------------------------------
(* Text helpers *)

Rep(c, n) == [i \in 1..n |-> c]

DigitChar(d) == <<"0","1","2","3","4","5","6","7","8","9">>[d + 1]

RECURSIVE NatToStr(_)
NatToStr(n) == IF n < 10 THEN <<DigitChar(n)>>
               ELSE NatToStr(n \div 10) \o <<DigitChar(n % 10)>>

\* operator<< of an integer into a stream (decimal, classic locale)
IntToStr(n) == IF n < 0 THEN <<"-">> \o NatToStr(-n) ELSE NatToStr(n)

----------------------------------------------------------------------------
(* std::ostream *)

InitStream == [lines |-> <<>>, buf |-> <<>>, fill |-> " ",
               adjust |-> "none", width |-> 0]

setfill(st, c) == [st EXCEPT !.fill = c]
setw(st, w) == [st EXCEPT !.width = w]
left(st) == [st EXCEPT !.adjust = "left"]
right(st) == [st EXCEPT !.adjust = "right"]

\* Formatted insertion of the text s: padded with the fill character up to
\* the pending width (never truncated), after which the width is reset.
put(st, s) ==
    LET pad == IF Len(s) >= st.width THEN <<>>
               ELSE Rep(st.fill, st.width - Len(s))
        text == IF st.adjust = "left" THEN s \o pad ELSE pad \o s
    IN [st EXCEPT !.buf = st.buf \o text, !.width = 0]

endl(st) == [st EXCEPT !.lines = Append(st.lines, st.buf), !.buf = <<>>]

----------------------------------------------------------------------------
(* Private helpers of Printer *)

\* Variant: find_first_of in place of find_last_of.
find_first_of_slash(s) ==
    LET hits == {i \in 1..Len(s) : s[i] \in {"/", "\\"}}
    IN IF hits = {} THEN npos
       ELSE (CHOOSE i \in hits : \A j \in hits : i <= j) - 1

\* std::string::find_last_of("/\\"): 0-based position of the last '/' or
\* '\', npos if there is none.
find_last_of_slash(s) ==
    LET hits == {i \in 1..Len(s) : s[i] \in {"/", "\\"}}
    IN IF hits = {} THEN npos
       ELSE (CHOOSE i \in hits : \A j \in hits : j <= i) - 1

\* std::string::substr(pos): the characters from 0-based position pos on.
substr(s, pos) == SubSeq(s, pos + 1, Len(s))

\* Variant: the cut is made at the separator instead of after it.
crop_path_at_slash(file_name) ==
    LET slash_position == find_last_of_slash(file_name)
    IN substr(file_name, IF slash_position = npos THEN 0 ELSE slash_position)

crop_path(file_name) ==
    LET slash_position == find_last_of_slash(file_name)
    IN substr(file_name, slash_position + 1)

\* Variant: the digits are counted from pos on, pos included.
comma_after_inclusive(len, pos) == (len - pos) >= 3 /\ (len - pos) % 3 = 0

\* Variant: the test "at least 3 digits follow" is left out.
comma_after_unguarded(len, pos) == (len - 1 - pos) % 3 = 0

\* The test that decides whether a comma follows the digit at position pos
\* of a digit string of length len.
comma_after(len, pos) == (len - 1 - pos) >= 3 /\ (len - 1 - pos) % 3 = 0

RECURSIVE separators_loop(_, _, _)
separators_loop(n_str, pos, stream) ==
    IF pos < Len(n_str)
    THEN LET s1 == Append(stream, n_str[pos + 1])
             s2 == IF comma_after(Len(n_str), pos) THEN Append(s1, ",") ELSE s1
         IN separators_loop(n_str, pos + 1, s2)
    ELSE stream

\* Variant: the number is returned as the stream printed it.
insert_separators_plain(n) == IntToStr(n)

insert_separators(n) == separators_loop(IntToStr(n), 0, <<>>)

print_hline(st, fill) ==
    endl(put(setw(setfill(st, fill), line_width), <<fill>>))

\* Variant: the fill character of the stream is left as the previous
\* insertion set it.
print_title_sticky_fill(st) ==
    LET fill == "#"
        half == (line_width - Len(title)) \div 2
        s1 == endl(put(setw(st, line_width), <<fill>>))
        s2 == put(setw(s1, half), <<fill>>)
        s3 == put(s2, title)
        s4 == put(s3, IF Len(title) % 2 > 0 THEN <<fill>> ELSE <<>>)
        s5 == endl(put(setw(s4, half), <<fill>>))
    IN endl(put(setw(s5, line_width), <<fill>>))

print_title(st) ==
    LET fill == "#"
        half == (line_width - Len(title)) \div 2
        s1 == endl(put(setw(setfill(st, fill), line_width), <<fill>>))
        s2 == put(setw(s1, half), <<fill>>)
        s3 == put(s2, title)
        s4 == put(s3, IF Len(title) % 2 > 0 THEN <<fill>> ELSE <<>>)
        s5 == endl(put(setw(s4, half), <<fill>>))
    IN endl(put(setw(s5, line_width), <<fill>>))

print_header(st) ==
    LET s1 == put(put(left(setw(setfill(st, " "), file_col_width)),
                      <<"F","i","l","e">>), <<"|">>)
        s2 == put(put(right(setw(s1, line_col_width)),
                      <<"L","i","n","e"," ">>), <<"|">>)
        s3 == put(put(right(setw(s2, count_col_width)),
                      <<"C","o","u","n","t"," ">>), <<"|">>)
        s4 == put(put(right(setw(s3, avg_duration_col_width)),
                      <<"A","v","e","r","a","g","e"," ","[","u","s","]"," ">>),
                  <<"|">>)
        s5 == put(right(setw(s4, ovr_duration_col_width)),
                  <<"O","v","e","r","a","l","l"," ","[","u","s","]">>)
    IN print_hline(endl(s5), "=")

\* print(const MultiMeasurement&): the two rows of one measurement.
print_measurement(st, measurement) ==
    LET file_start == crop_path(measurement.start.file)
        a1 == put(put(left(setw(setfill(st, " "), file_col_width)),
                      file_start), <<"|">>)
        a2 == put(put(right(setw(a1, line_col_width)),
                      IntToStr(measurement.start.line)), <<"|">>)
        a3 == put(put(right(setw(a2, count_col_width)), <<" ">>), <<"|">>)
        a4 == endl(put(put(right(setw(a3, avg_duration_col_width)), <<" ">>),
                       <<"|">>))
        cropped == crop_path(measurement.end.file)
        file_end == IF file_start = cropped THEN <<>> ELSE cropped
        b1 == put(put(left(setw(setfill(a4, " "), file_col_width)),
                      file_end), <<"|">>)
        b2 == put(put(right(setw(b1, line_col_width)),
                      IntToStr(measurement.end.line)), <<"|">>)
        b3 == put(put(right(setw(b2, count_col_width)),
                      IntToStr(measurement.count)), <<"|">>)
        b4 == put(put(right(setw(b3, avg_duration_col_width)),
                      insert_separators(measurement.average)), <<"|">>)
        b5 == put(right(setw(b4, ovr_duration_col_width)),
                  insert_separators(measurement.overall))
    IN endl(b5)

\* Variant: i is compared with size instead of size - 1.
hline_fill_off_by_one(i, size) == IF i < size THEN "-" ELSE "#"

\* The fill character of the line that closes the block of measurement i
\* out of size.
hline_fill(i, size) == IF i < size - 1 THEN "-" ELSE "#"

\* The for loop of print(); p carries the stream, the loop variable i and
\* the indices read so far.
RECURSIVE print_loop(_, _)
print_loop(p, ms) ==
    IF p.i < Len(ms)
    THEN LET s1 == print_measurement(p.st, ms[p.i + 1])
             s2 == print_hline(s1, hline_fill(p.i, Len(ms)))
         IN print_loop([st |-> s2, i |-> p.i + 1,
                        reads |-> Append(p.reads, p.i)], ms)
    ELSE p

\* Variant: the closing line is written after the loop, also when the loop
\* did not run.
print_closing_always(st, ms) ==
    LET p == print_loop([st |-> print_header(print_title(st)), i |-> 0,
                         reads |-> <<>>], ms)
    IN IF ms = <<>> THEN [p EXCEPT !.st = print_hline(p.st, "#")] ELSE p

print(st, ms) ==
    print_loop([st |-> print_header(print_title(st)), i |-> 0,
                reads |-> <<>>], ms)

\* Variant: the measurement is inserted at the front.
push_front(v, x) == <<x>> \o v

push_back(v, x) == Append(v, x)

----------------------------------------------------------------------------
(* Inputs *)

FileSrcA == <<"s","r","c","/","a",".","c","p","p">>
FileLibA == <<"l","i","b","/","a",".","c","p","p">>
FileA == <<"a",".","c","p","p">>
FileB == <<"b",".","c","p","p">>
FileWinC == <<"a","\\","b","\\","c",".","c","p","p">>
FileDir == <<"d","i","r","/">>
FileLong == Rep("x", 27) \o <<".","c","p","p">>

Checkpoint(f, l) == [file |-> f, line |-> l]

MultiMeasurement(s, e, c, avg, ovr) ==
    [start |-> s, end |-> e, count |-> c, average |-> avg, overall |-> ovr]

\* src/a.cpp:10 -> src/a.cpp:20, the same file on both rows
MSame == MultiMeasurement(Checkpoint(FileSrcA, 10), Checkpoint(FileSrcA, 20),
                          2, 1500, 3000)
\* the same base name in two directories
MDirs == MultiMeasurement(Checkpoint(FileSrcA, 5), Checkpoint(FileLibA, 7),
                          12345, 999, 12332655)
\* two different files
MDiff == MultiMeasurement(Checkpoint(FileA, 1), Checkpoint(FileB, 2),
                          1, 1234567, 1234567)
\* backslash separators; the end path ends in a separator
MTrail == MultiMeasurement(Checkpoint(FileWinC, 3), Checkpoint(FileDir, 4),
                           1000, 0, 0)
\* a base name of 31 characters and a line number of 7 digits
MLong == MultiMeasurement(Checkpoint(FileLong, 1234567), Checkpoint(FileB, 8),
                          3, 1000, 3000)

Measurements == {MSame, MDirs, MDiff, MTrail, MLong}

Numbers == (0 .. MaxN)
           \cup{999999, 1000000, 1234567, 999999999, 1000000000, 2147483647}

PathChars == {"a", ".", "/", "\\"}

Paths == UNION {[1..k -> PathChars] : k \in 0..MaxPathLen}

----------------------------------------------------------------------------
(* The Printer: add() and print() *)

Init ==
    /\ measurements_ = <<>>
    /\ cerr = InitStream
    /\ calls = <<>>
    /\ added = <<>>
    /\ marks = <<>>
    /\ consulted = <<>>
    /\ pc = "idle"
    /\ arg = 0
    /\ ret = <<>>

Add(measurement) ==
    /\ pc = "idle"
    /\ Len(calls) < MaxCalls
    /\ measurements_' = push_back(measurements_, measurement)
    /\ calls' = Append(calls, "add")
    /\ added' = Append(added, measurement)
    /\ UNCHANGED <<cerr, marks, consulted, pc, arg, ret>>

PrinterPrint ==
    /\ pc = "idle"
    /\ Len(calls) < MaxCalls
    /\ LET p == print(cerr, measurements_)
       IN /\ cerr' = p.st
          /\ consulted' = p.reads
    /\ calls' = Append(calls, "print")
    /\ marks' = Append(marks, Len(cerr.lines))
    /\ UNCHANGED <<measurements_, added, pc, arg, ret>>

Next == (\E m \in Measurements : Add(m)) \/ PrinterPrint

Spec == Init /\ [][Next]_vars

----------------------------------------------------------------------------
(* insert_separators applied to one number *)

InitSeparators ==
    /\ measurements_ = <<>>
    /\ cerr = InitStream
    /\ calls = <<>>
    /\ added = <<>>
    /\ marks = <<>>
    /\ consulted = <<>>
    /\ pc = "call"
    /\ arg \in Numbers
    /\ ret = <<>>

CallInsertSeparators ==
    /\ pc = "call"
    /\ ret' = insert_separators(arg)
    /\ pc' = "done"
    /\ UNCHANGED <<measurements_, cerr, calls, added, marks, consulted, arg>>

NextSeparators == CallInsertSeparators

SpecSeparators == InitSeparators /\ [][NextSeparators]_vars

----------------------------------------------------------------------------
(* crop_path applied to one path *)

InitCrop ==
    /\ measurements_ = <<>>
    /\ cerr = InitStream
    /\ calls = <<>>
    /\ added = <<>>
    /\ marks = <<>>
    /\ consulted = <<>>
    /\ pc = "call"
    /\ arg \in Paths
    /\ ret = <<>>

CallCropPath ==
    /\ pc = "call"
    /\ ret' = crop_path(arg)
    /\ pc' = "done"
    /\ UNCHANGED <<measurements_, cerr, calls, added, marks, consulted, arg>>

NextCrop == CallCropPath

SpecCrop == InitCrop /\ [][NextCrop]_vars

----------------------------------------------------------------------------
(* Reading the report back *)

Min(S) == CHOOSE x \in S : \A y \in S : x <= y
Max(S) == CHOOSE x \in S : \A y \in S : y <= x

LastOp == IF calls = <<>> THEN "none" ELSE calls[Len(calls)]

\* The lines written by the k-th print() call.
Report(k) ==
    SubSeq(cerr.lines, marks[k] + 1,
           IF k < Len(marks) THEN marks[k + 1] ELSE Len(cerr.lines))

LastReport == Report(Len(marks))

\* The two rows of the k-th block of a report.
RowA(r, k) == r[3 * k + 3]
RowB(r, k) == r[3 * k + 4]

IsSeparatorLine(l) == l = Rep("-", 80) \/ l = Rep("#", 80)

Bars(row) == {i \in 1..Len(row) : row[i] = "|"}

\* The pieces of a row between its '|' characters.
RECURSIVE Split(_)
Split(row) ==
    IF Bars(row) = {} THEN <<row>>
    ELSE LET b == Min(Bars(row))
         IN <<SubSeq(row, 1, b - 1)>> \o Split(SubSeq(row, b + 1, Len(row)))

\* A piece without the blanks that pad it.
Trim(s) ==
    LET ink == {i \in 1..Len(s) : s[i] # " "}
    IN IF ink = {} THEN <<>> ELSE SubSeq(s, Min(ink), Max(ink))

Fields(row) == [k \in 1..Len(Split(row)) |-> Trim(Split(row)[k])]

\* The base name of a path, as the specification words it.
BaseName(path) ==
    LET seps == {i \in 1..Len(path) : path[i] = "/" \/ path[i] = "\\"}
    IN IF seps = {} THEN path
       ELSE [j \in 1..(Len(path) - Max(seps)) |-> path[Max(seps) + j]]

DigitValue(c) ==
    CASE c = "0" -> 0 [] c = "1" -> 1 [] c = "2" -> 2 [] c = "3" -> 3
      [] c = "4" -> 4 [] c = "5" -> 5 [] c = "6" -> 6 [] c = "7" -> 7
      [] c = "8" -> 8 [] c = "9" -> 9

IsDigit(c) == c \in {"0","1","2","3","4","5","6","7","8","9"}

\* The number a text denotes when its commas are skipped.
RECURSIVE DecimalValue(_)
DecimalValue(s) ==
    IF s = <<>> THEN 0
    ELSE LET front == SubSeq(s, 1, Len(s) - 1)
             c == s[Len(s)]
         IN IF c = "," THEN DecimalValue(front)
            ELSE 10 * DecimalValue(front) + DigitValue(c)

\* Digits in groups of three from the right, a comma between two groups.
Grouped(s) ==
    /\ Len(s) >= 1
    /\ s[1] # ","
    /\ \A i \in 1..Len(s) :
         /\ (s[i] = ",") <=> ((Len(s) - i + 1) % 4 = 0)
         /\ s[i] # "," => IsDigit(s[i])
    /\ (s[1] = "0" => Len(s) = 1)

PlainNumber(s) == Len(s) >= 1 /\ \A i \in 1..Len(s) : IsDigit(s[i])

NonCommas(s) == {i \in 1..Len(s) : s[i] # ","}

\* The place in s of its k-th character that is not a comma.
KthDigit(s, k) ==
    CHOOSE i \in NonCommas(s) : Cardinality({j \in NonCommas(s) : j <= i}) = k

CommaFollows(s, k) ==
    KthDigit(s, k) < Len(s) /\ s[KthDigit(s, k) + 1] = ","

----------------------------------------------------------------------------
(* Claims *)

\* C1: after print() over N >= 1 measurements the report has one separator
\* line right after the two rows of each measurement and no other '-' or
\* '#' line after the header; the separators of measurements 1..N-1 are
\* filled with '-', the one of measurement N with '#'.
C1_SeparatorRule ==
    (LastOp = "print" /\ Len(added) >= 1) =>
        LET r == LastReport
            n == Len(added)
        IN /\ Len(r) = 5 + 3 * n
           /\ \A k \in 1..n :
                /\ r[3 * k + 5] = Rep(IF k < n THEN "-" ELSE "#", 80)
                /\ ~IsSeparatorLine(RowA(r, k))
                /\ ~IsSeparatorLine(RowB(r, k))
           /\ Cardinality({j \in 6..Len(r) : IsSeparatorLine(r[j])}) = n

C1_Witness ==
    /\ LastOp = "print"
    /\ Len(added) >= 2
    /\ LastReport[8] = Rep("-", 80)
    /\ LastReport[Len(LastReport)] = Rep("#", 80)

\* C2: whatever add() and print() calls came before, a print() writes one
\* two-row block per added measurement in the order of the add() calls (a
\* measurement added twice gives two blocks) and reads measurements_[i]
\* once for each i = 0 .. size-1, in that order.
C2_OrderPreserved ==
    LastOp = "print" =>
        LET r == LastReport
            n == Len(added)
        IN /\ Len(r) = 5 + 3 * n
           /\ \A k \in 1..n :
                <<RowA(r, k), RowB(r, k)>> =
                    print_measurement(InitStream, added[k]).lines
           /\ consulted = [k \in 1..n |-> k - 1]

C2_Witness ==
    /\ calls = <<"add", "print", "add", "print">>
    /\ added[1] # added[2]
    /\ Len(LastReport) = 11

\* C3: print() on a Printer without measurements writes the three banner
\* lines, the header row and the '=' line, and nothing else.
C3_EmptyReport ==
    (LastOp = "print" /\ added = <<>>) =>
        LastReport =
            << Rep("#", 80),
               Rep("#", 28) \o title \o Rep("#", 29),
               Rep("#", 80),
               <<"F","i","l","e">> \o Rep(" ", 26) \o <<"|">>
                 \o <<" ","L","i","n","e"," ">> \o <<"|">>
                 \o Rep(" ", 4) \o <<"C","o","u","n","t"," ">> \o <<"|">>
                 \o Rep(" ", 2)
                 \o <<"A","v","e","r","a","g","e"," ","[","u","s","]"," ">>
                 \o <<"|">>
                 \o Rep(" ", 3)
                 \o <<"O","v","e","r","a","l","l"," ","[","u","s","]">>,
               Rep("=", 80) >>

C3_Witness ==
    /\ LastOp = "print"
    /\ added = <<>>
    /\ Len(LastReport) = 5

\* C4: for n >= 0, insert_separators(n) denotes n, has no leading zero, and
\* has a comma exactly between the groups of three digits counted from the
\* right: none in front, none at the end, none in a number below 1000
\* (0 -> "0", 999 -> "999", 1000 -> "1,000", 1234567 -> "1,234,567").
C4_ThousandsSeparators ==
    (pc = "done" /\ arg >= 0) =>
        /\ Grouped(ret)
        /\ DecimalValue(ret) = arg
        /\ ret[Len(ret)] # ","
        /\ (arg < 1000 => \A i \in 1..Len(ret) : ret[i] # ",")
        /\ (arg = 0 => ret = <<"0">>)
        /\ (arg = 999 => ret = <<"9","9","9">>)
        /\ (arg = 1000 => ret = <<"1",",","0","0","0">>)
        /\ (arg = 1234567 => ret = <<"1",",","2","3","4",",","5","6","7">>)

C4_Witness ==
    /\ pc = "done"
    /\ arg = 1234567
    /\ Len(ret) = 9

\* C5: crop_path returns the part of the path strictly after its last '/'
\* or '\'; a path without either is returned unchanged, a path that ends in
\* one gives the empty text.
C5_CropPath ==
    pc = "done" =>
        LET seps == {i \in 1..Len(arg) : arg[i] \in {"/", "\\"}}
        IN /\ \E p \in 0..Len(arg) :
                /\ ret = SubSeq(arg, p + 1, Len(arg))
                /\ p = 0 \/ p \in seps
                /\ \A i \in seps : i <= p
           /\ (seps = {} => ret = arg)
           /\ (Len(arg) \in seps => ret = <<>>)

C5_Witness ==
    /\ pc = "done"
    /\ arg = <<"a", "/", "\\", "a">>
    /\ ret = <<"a">>

\* C6 as stated: the File field of Row B is empty exactly when the base
\* names of end.file and start.file are equal, it shows the base name of
\* end.file otherwise, and Row A shows the base name of start.file.
C6_SuppressedExactlyWhenEqual ==
    LastOp = "print" =>
        \A k \in 1..Len(added) :
            LET m == added[k]
                fileA == Fields(RowA(LastReport, k))[1]
                fileB == Fields(RowB(LastReport, k))[1]
            IN /\ fileA = BaseName(m.start.file)
               /\ (fileB = <<>>) <=>
                      (BaseName(m.end.file) = BaseName(m.start.file))
               /\ (BaseName(m.end.file) # BaseName(m.start.file)
                      => fileB = BaseName(m.end.file))

\* C6 amended: Row A shows the base name of start.file; the File field of
\* Row B is empty when the two base names are equal and is the base name
\* of end.file otherwise, so that it is empty exactly when the base names
\* are equal or the base name of end.file is itself empty.
C6_SameFileSuppressed ==
    LastOp = "print" =>
        \A k \in 1..Len(added) :
            LET m == added[k]
                fileA == Fields(RowA(LastReport, k))[1]
                fileB == Fields(RowB(LastReport, k))[1]
            IN /\ fileA = BaseName(m.start.file)
               /\ (BaseName(m.end.file) = BaseName(m.start.file)
                      => fileB = <<>>)
               /\ (BaseName(m.end.file) # BaseName(m.start.file)
                      => fileB = BaseName(m.end.file))
               /\ (fileB = <<>>) <=>
                      \/ BaseName(m.end.file) = BaseName(m.start.file)
                      \/ BaseName(m.end.file) = <<>>

\* a measurement between src/a.cpp and lib/a.cpp has been printed
C6_Witness ==
    /\ LastOp = "print"
    /\ \E k \in 1..Len(added) :
         /\ added[k].start.file # added[k].end.file
         /\ BaseName(added[k].start.file) = BaseName(added[k].end.file)
         /\ Fields(RowB(LastReport, k))[1] = <<>>
         /\ Fields(RowA(LastReport, k))[1] = <<"a",".","c","p","p">>

\* C7: Row A is four fields, each followed by '|': the base name of
\* start.file, start.line, a blank Count and a blank Average, and nothing
\* after them. Row B is five fields: File, end.line, count as a plain
\* number, averageDuration and overallDuration with thousands separators.
\* The measurement src/a.cpp:10 -> src/a.cpp:20, count 2, average 1500,
\* overall 3000, printed alone, gives the three lines spelled out below.
C7_Rows ==
    LastOp = "print" =>
        /\ \A k \in 1..Len(added) :
             LET m == added[k]
                 a == Split(RowA(LastReport, k))
                 b == Split(RowB(LastReport, k))
             IN /\ Len(a) = 5
                /\ a[5] = <<>>
                /\ Trim(a[1]) = BaseName(m.start.file)
                /\ PlainNumber(Trim(a[2]))
                /\ DecimalValue(Trim(a[2])) = m.start.line
                /\ Len(a[3]) >= 1 /\ Trim(a[3]) = <<>>
                /\ Len(a[4]) >= 1 /\ Trim(a[4]) = <<>>
                /\ Len(b) = 5
                /\ PlainNumber(Trim(b[2]))
                /\ DecimalValue(Trim(b[2])) = m.end.line
                /\ PlainNumber(Trim(b[3]))
                /\ DecimalValue(Trim(b[3])) = m.count
                /\ Grouped(Trim(b[4]))
                /\ DecimalValue(Trim(b[4])) = m.average
                /\ Grouped(Trim(b[5]))
                /\ DecimalValue(Trim(b[5])) = m.overall
        /\ added = <<MSame>> =>
             /\ LastReport[6] =
                    <<"a",".","c","p","p">> \o Rep(" ", 25) \o <<"|">>
                      \o Rep(" ", 4) \o <<"1","0">> \o <<"|">>
                      \o Rep(" ", 10) \o <<"|">>
                      \o Rep(" ", 15) \o <<"|">>
             /\ LastReport[7] =
                    Rep(" ", 30) \o <<"|">>
                      \o Rep(" ", 4) \o <<"2","0">> \o <<"|">>
                      \o Rep(" ", 9) \o <<"2">> \o <<"|">>
                      \o Rep(" ", 10) \o <<"1",",","5","0","0">> \o <<"|">>
                      \o Rep(" ", 10) \o <<"3",",","0","0","0">>
             /\ LastReport[8] = Rep("#", 80)

C7_Witness ==
    /\ LastOp = "print"
    /\ added = <<MSame>>
    /\ Len(LastReport) = 8

\* C8: a print() call leaves measurements_ as it was, and a print() call
\* that directly follows a print() call writes the same lines again.
C8_PrintIdempotent ==
    [][calls' = Append(calls, "print") =>
          /\ measurements_' = measurements_
          /\ (LastOp = "print" =>
                LastReport' = LastReport)]_vars

C8_Witness ==
    /\ Len(calls) >= 3
    /\ calls[Len(calls)] = "print"
    /\ calls[Len(calls) - 1] = "print"
    /\ measurements_ # <<>>
    /\ LastReport = Report(Len(marks) - 1)

\* C9 as stated: in every block the '|' of Row A and Row B stand where
\* those of the header row stand (after 30, 6, 10 and 15 columns), no row
\* is longer than 80 columns, and every value is shown in full.
C9_ColumnsAligned ==
    LastOp = "print" =>
        \A k \in 1..Len(added) :
            LET m == added[k]
                a == RowA(LastReport, k)
                b == RowB(LastReport, k)
            IN /\ Bars(LastReport[4]) = {31, 38, 49, 65}
               /\ Bars(a) = {31, 38, 49, 65}
               /\ Bars(b) = {31, 38, 49, 65}
               /\ Len(a) <= 80
               /\ Len(b) <= 80
               /\ Fields(a)[1] = BaseName(m.start.file)
               /\ DecimalValue(Fields(a)[2]) = m.start.line
               /\ DecimalValue(Fields(b)[2]) = m.end.line
               /\ DecimalValue(Fields(b)[3]) = m.count
               /\ DecimalValue(Fields(b)[4]) = m.average
               /\ DecimalValue(Fields(b)[5]) = m.overall

\* C10 as stated: a comma follows the digit at position pos exactly when
\* the number of digits from pos to the end, pos included, is a multiple
\* of 3 and at least 3.
C10_CommaCountsInclusive ==
    pc = "done" =>
        LET len == Cardinality(NonCommas(ret))
        IN \A pos \in 0..(len - 1) :
             CommaFollows(ret, pos + 1) <=>
                 ((len - pos) >= 3 /\ (len - pos) % 3 = 0)

\* C10 amended: a comma follows the digit at position pos exactly when the
\* number of digits after pos, pos not included, is a multiple of 3 and at
\* least 3.
C10_CommaCountsFollowing ==
    pc = "done" =>
        LET len == Cardinality(NonCommas(ret))
        IN \A pos \in 0..(len - 1) :
             CommaFollows(ret, pos + 1) <=>
                 ((len - 1 - pos) >= 3 /\ (len - 1 - pos) % 3 = 0)

C10_Witness ==
    /\ pc = "done"
    /\ arg = 1000000
    /\ CommaFollows(ret, 1)
    /\ CommaFollows(ret, 4)
    /\ ~CommaFollows(ret, 7)

====
